---- MODULE Spec2Model ----
(***************************************************************************)
(* Model of daemon/rdp-display-manager.py: the connection-driven state     *)
(* machine of RdpDisplaySwitcherService together with DisplayConfig        *)
(* (topology save/restore and the durable state file).                     *)
(*                                                                         *)
(* Two execution contexts mutate the service object:                       *)
(*   "poll" - the _monitor_loop thread, which calls _check_connections     *)
(*            directly (and through it _restore_displays);                 *)
(*   "ev"   - the GLib main loop, which runs one callback at a time: the   *)
(*            debounce timer callback and the DBus methods.                *)
(* Each step below is one access to shared state or one external command,  *)
(* so the two contexts interleave the way the Python threads can.          *)
(*                                                                         *)
(* Three further specifications look at one class or method on its own,    *)
(* its calls made one after another: SpecDisplayConfig (DisplayConfig with *)
(* the topology and the command lines in full), SpecConnections            *)
(* (ConnectionMonitor.check_connections) and SpecDisplays (the parse of    *)
(* GetDisplays).                                                           *)
(***************************************************************************)
EXTENDS Naturals, FiniteSets, Sequences, TLC

VARIABLES
    running,           \* the daemon process is alive
    state,             \* self.state
    enabled,           \* self.enabled
    saved_config,      \* self.display_config.saved_config
    secondary_output,  \* self.display_config.secondary_output
    timers,            \* debounce callbacks scheduled with GLib and not yet fired
    state_file,        \* STATE_FILE on disk
    config_file,       \* CONFIG_FILE on disk
    conn,              \* an established RDP/VNC connection exists (environment)
    display,           \* the outputs currently enabled (environment, kscreen)
    pc,                \* position of each execution context
    has_connection,    \* local of _check_connections (poll thread)
    data,              \* local of _load_from_disk, per context
    captured,          \* result of get_current_config not yet assigned (ev)
    fx,                \* what the last step did outside: the request it
                       \* served, the tool it ran, the signal it emitted
    steps,             \* what the callback the main loop is in has done so far
    restore_result,    \* outcome of the last restore_config call, "none"
                       \* once a new topology is saved
    remote_mode,       \* value of the last RemoteModeChanged signal
    runs,              \* what the commands of a query method give, in the
                       \* order it runs them (environment: ss, kscreen-doctor -o)
    returned           \* value returned by the last call of a query method

vars == <<running, state, enabled, saved_config, secondary_output, timers,
          state_file, config_file, conn, display, pc, has_connection, data,
          captured, fx, steps, restore_result, remote_mode, runs, returned>>

----------------------------------------------------------------------------
(* Bounds and constants *)

\* Debounce callbacks that can be pending together. A callback fires
\* DEBOUNCE_TIME (3 s) after it was armed and at most one is armed per poll
\* tick (every POLL_INTERVAL, 2 s), so two can overlap.
MaxTimers == 2

Threads == {"poll", "ev"}

\* The outputs kscreen-doctor reports; the first is the default secondary.
Outputs == {"HDMI-A-1", "DP-1"}
DefaultSecondary == "HDMI-A-1"

States == {"IDLE", "DETECTED", "SWITCHING", "REMOTE_ACTIVE", "RESTORING", "DISABLED"}

\* Values of saved_config: None, the empty dict {} that get_current_config
\* returns on failure, or a topology (here: which outputs it lists as enabled).
None == [kind |-> "None", on |-> {}]
Empty == [kind |-> "Empty", on |-> {}]
Topology(on) == [kind |-> "Dict", on |-> on]
ConfigValues == {None, Empty} \cup {Topology(on) : on \in SUBSET Outputs}

\* Python truthiness of a saved_config value
Truthy(c) == c.kind = "Dict"

NoStateFile == [exists |-> FALSE, saved_config |-> None, secondary_output |-> DefaultSecondary]
NoConfigFile == [exists |-> FALSE, enabled |-> TRUE, secondary_output |-> DefaultSecondary]

Ret(t) == IF t = "poll" THEN "wait" ELSE "idle"

\* The outputs a saved_config value lists (saved_config.get("outputs", []))
OutputsOf(c) == IF c.kind = "Dict" THEN Outputs ELSE {}

----------------------------------------------------------------------------
(* DisplayConfig.restore_config run with nothing else running (startup).   *)
(* Returns the new saved_config, state file and display, and whether the   *)
(* display tool was invoked.                                               *)
RestoreConfigAlone(saved, file, name, disp, toolOk) ==
    LET loaded == IF Truthy(saved) THEN saved
                  ELSE IF file.exists THEN file.saved_config ELSE saved
        have == Truthy(saved) \/ (file.exists /\ file.saved_config # None)
        found == have /\ name \in OutputsOf(loaded)
    IN  IF found /\ toolOk
        THEN [ret |-> TRUE, saved_config |-> None, state_file |-> NoStateFile,
              display |-> disp \cup {name}, invoked |-> TRUE]
        ELSE [ret |-> FALSE, saved_config |-> loaded, state_file |-> file,
              display |-> disp, invoked |-> found]

----------------------------------------------------------------------------
Constructed ==
    /\ running = FALSE
    /\ state = "IDLE"
    /\ enabled = TRUE
    /\ saved_config = None
    /\ secondary_output = DefaultSecondary
    /\ timers = 0
    /\ state_file = NoStateFile
    /\ config_file = NoConfigFile
    /\ conn = FALSE
    /\ display = Outputs
    /\ pc = [t \in Threads |-> "down"]
    /\ has_connection = FALSE
    /\ data = [t \in Threads |-> None]
    /\ captured = None
    /\ fx = {}
    /\ steps = <<>>
    /\ restore_result = "none"
    /\ remote_mode = "unset"

\* No query method is being looked at
Init ==
    /\ Constructed
    /\ runs = <<>>
    /\ returned = <<>>

\* The query methods' inputs and results
Queries == <<runs, returned>>

\* Frame helpers
Goto(t, l) == pc' = [pc EXCEPT ![t] = l]
Disk == <<state_file, config_file>>
Locals == <<has_connection, data, captured>>
Ghost == <<steps, restore_result>>

----------------------------------------------------------------------------
\* Variant of Start that resumes remote mode when the recovery failed
StartRemoteAfterFailedRecovery ==
    /\ ~running
    /\ \E toolOk \in BOOLEAN :
        LET cfgEnabled == IF config_file.exists THEN config_file.enabled ELSE TRUE
            cfgOutput == IF config_file.exists THEN config_file.secondary_output
                         ELSE DefaultSecondary
            \* _check_crash_recovery: _load_from_disk, then restore_config
            mem == IF state_file.exists THEN state_file.saved_config ELSE None
            r == RestoreConfigAlone(mem, state_file, cfgOutput, display, toolOk)
            recover == state_file.exists /\ state_file.saved_config # None
        IN  /\ running' = TRUE
            /\ state' = IF recover /\ ~r.ret THEN "REMOTE_ACTIVE" ELSE "IDLE"
            /\ enabled' = cfgEnabled
            /\ secondary_output' = cfgOutput
            /\ saved_config' = IF recover THEN r.saved_config ELSE mem
            /\ state_file' = IF recover THEN r.state_file ELSE state_file
            /\ display' = IF recover THEN r.display ELSE display
            /\ fx' = IF ~(recover /\ r.invoked) THEN {"start"}
                     ELSE IF r.ret THEN {"start", "restore"}
                     ELSE {"start", "restore failed"}
            /\ restore_result' = IF ~recover THEN "none"
                                  ELSE IF r.ret THEN "restored" ELSE "recovery failed"
    /\ timers' = 0
    /\ pc' = [t \in Threads |-> Ret(t)]
    /\ UNCHANGED <<config_file, conn, Locals, remote_mode, steps>>
    /\ UNCHANGED Queries

(* __init__: defaults, _load_config, _check_crash_recovery, thread start.  *)
(* Nothing else runs before the monitor thread is started, so it is one    *)
(* step.                                                                   *)
Start ==
    /\ ~running
    /\ \E toolOk \in BOOLEAN :
        LET cfgEnabled == IF config_file.exists THEN config_file.enabled ELSE TRUE
            cfgOutput == IF config_file.exists THEN config_file.secondary_output
                         ELSE DefaultSecondary
            \* _check_crash_recovery: _load_from_disk, then restore_config
            mem == IF state_file.exists THEN state_file.saved_config ELSE None
            r == RestoreConfigAlone(mem, state_file, cfgOutput, display, toolOk)
            recover == state_file.exists /\ state_file.saved_config # None
        IN  /\ running' = TRUE
            /\ state' = "IDLE"
            /\ enabled' = cfgEnabled
            /\ secondary_output' = cfgOutput
            /\ saved_config' = IF recover THEN r.saved_config ELSE mem
            /\ state_file' = IF recover THEN r.state_file ELSE state_file
            /\ display' = IF recover THEN r.display ELSE display
            /\ fx' = IF ~(recover /\ r.invoked) THEN {"start"}
                     ELSE IF r.ret THEN {"start", "restore"}
                     ELSE {"start", "restore failed"}
            /\ restore_result' = IF ~recover THEN "none"
                                  ELSE IF r.ret THEN "restored" ELSE "recovery failed"
    /\ timers' = 0
    /\ pc' = [t \in Threads |-> Ret(t)]
    /\ UNCHANGED <<config_file, conn, Locals, remote_mode, steps>>
    /\ UNCHANGED Queries

\* Variant of Stop that removes the state file on the way out
StopClearingState ==
    /\ running
    /\ running' = FALSE
    /\ state' = "IDLE"
    /\ enabled' = TRUE
    /\ saved_config' = None
    /\ secondary_output' = DefaultSecondary
    /\ timers' = 0
    /\ pc' = [t \in Threads |-> "down"]
    /\ has_connection' = FALSE
    /\ data' = [t \in Threads |-> None]
    /\ captured' = None
    /\ fx' = {}
    /\ steps' = <<>>
    /\ restore_result' = "none"
    /\ remote_mode' = "unset"
    /\ state_file' = NoStateFile
    /\ UNCHANGED <<config_file, conn, display>>
    /\ UNCHANGED Queries

(* The process ends (stop() from the signal handler, or a crash): memory   *)
(* and pending GLib callbacks are gone, the files and the display stay.    *)
Stop ==
    /\ running
    /\ running' = FALSE
    /\ state' = "IDLE"
    /\ enabled' = TRUE
    /\ saved_config' = None
    /\ secondary_output' = DefaultSecondary
    /\ timers' = 0
    /\ pc' = [t \in Threads |-> "down"]
    /\ has_connection' = FALSE
    /\ data' = [t \in Threads |-> None]
    /\ captured' = None
    /\ fx' = {}
    /\ steps' = <<>>
    /\ restore_result' = "none"
    /\ remote_mode' = "unset"
    /\ UNCHANGED <<Disk, conn, display>>
    /\ UNCHANGED Queries

(* A remote client connects or disconnects.                                *)
ConnChange ==
    /\ conn' = ~conn
    /\ fx' = {}
    /\ UNCHANGED <<running, state, enabled, saved_config, secondary_output, timers,
                   Disk, display, pc, Locals, remote_mode, Ghost>>
    /\ UNCHANGED Queries

----------------------------------------------------------------------------
(* The monitor thread: _monitor_loop calling _check_connections.           *)

\* line 469, first operand: not self.enabled
PollTick ==
    /\ pc["poll"] = "wait"
    /\ timers < MaxTimers
    /\ Goto("poll", IF enabled THEN "cc_469" ELSE "wait")
    /\ fx' = {"tick"}
    /\ UNCHANGED <<running, state, enabled, saved_config, secondary_output, timers,
                   Disk, conn, display, Locals, remote_mode, Ghost>>
    /\ UNCHANGED Queries

\* line 469, second operand: self.state == State.DISABLED
CheckDisabled ==
    /\ pc["poll"] = "cc_469"
    /\ Goto("poll", IF state = "DISABLED" THEN "wait" ELSE "cc_472")
    /\ fx' = {}
    /\ UNCHANGED <<running, state, enabled, saved_config, secondary_output, timers,
                   Disk, conn, display, Locals, remote_mode, Ghost>>
    /\ UNCHANGED Queries

\* line 472: has_connection = self.connection_monitor.has_remote_connection()
PollConnections ==
    /\ pc["poll"] = "cc_472"
    /\ has_connection' = conn
    /\ Goto("poll", "cc_474")
    /\ fx' = {"ss"}
    /\ UNCHANGED <<running, state, enabled, saved_config, secondary_output, timers,
                   Disk, conn, display, data, captured, remote_mode, Ghost>>
    /\ UNCHANGED Queries

\* Variant of PollBranch that takes a connection seen during SWITCHING for
\* a new detection
PollBranchAnyState ==
    /\ pc["poll"] = "cc_474"
    /\ Goto("poll", IF state \in {"IDLE", "SWITCHING"} /\ has_connection THEN "cc_477"
                    ELSE IF state = "REMOTE_ACTIVE" /\ ~has_connection THEN "cc_484"
                    ELSE "wait")
    /\ has_connection' = FALSE
    /\ fx' = {}
    /\ UNCHANGED <<running, state, enabled, saved_config, secondary_output, timers,
                   Disk, conn, display, data, captured, remote_mode, Ghost>>
    /\ UNCHANGED Queries

\* lines 474 and 481: the two tests of self.state
PollBranch ==
    /\ pc["poll"] = "cc_474"
    /\ Goto("poll", IF state = "IDLE" /\ has_connection THEN "cc_477"
                    ELSE IF state = "REMOTE_ACTIVE" /\ ~has_connection THEN "cc_484"
                    ELSE "wait")
    /\ has_connection' = FALSE
    /\ fx' = {}
    /\ UNCHANGED <<running, state, enabled, saved_config, secondary_output, timers,
                   Disk, conn, display, data, captured, remote_mode, Ghost>>
    /\ UNCHANGED Queries

\* lines 477-479: _transition_to(DETECTED), GLib.timeout_add_seconds
PollDetected ==
    /\ pc["poll"] = "cc_477"
    /\ state' = "DETECTED"
    /\ timers' = timers + 1
    /\ Goto("poll", "wait")
    /\ fx' = {}
    /\ UNCHANGED <<running, enabled, saved_config, secondary_output,
                   Disk, conn, display, Locals, remote_mode, Ghost>>
    /\ UNCHANGED Queries

\* line 484: _transition_to(RESTORING), then _restore_displays()
PollRestoring ==
    /\ pc["poll"] = "cc_484"
    /\ state' = "RESTORING"
    /\ Goto("poll", "rd_529")
    /\ fx' = {}
    /\ UNCHANGED <<running, enabled, saved_config, secondary_output, timers,
                   Disk, conn, display, Locals, remote_mode, Ghost>>
    /\ UNCHANGED Queries

----------------------------------------------------------------------------
(* _restore_displays and DisplayConfig.restore_config, run by context t:   *)
(* the monitor thread (line 485) or the main loop (RestoreNow, line 610).  *)

\* The main loop's callback records what it does; it ends with steps empty.
Log(t, e) == steps' = IF t = "ev" THEN Append(steps, e) ELSE steps
EndLog(t) == steps' = IF t = "ev" THEN <<>> ELSE steps

\* line 529
RestoreBegin(t) ==
    /\ pc[t] = "rd_529"
    /\ state' = "RESTORING"
    /\ Goto(t, "rc_197")
    /\ fx' = {}
    /\ Log(t, "RESTORING")
    /\ UNCHANGED <<running, enabled, saved_config, secondary_output, timers,
                   Disk, conn, display, Locals, remote_mode, restore_result>>
    /\ UNCHANGED Queries

\* line 197: if not self.saved_config
RestoreCheckSaved(t) ==
    /\ pc[t] = "rc_197"
    /\ Goto(t, IF Truthy(saved_config) THEN "rc_204" ELSE "ld_157")
    /\ fx' = {}
    /\ UNCHANGED <<running, state, enabled, saved_config, secondary_output, timers,
                   Disk, conn, display, Locals, remote_mode, Ghost>>
    /\ UNCHANGED Queries

\* lines 157-160: STATE_FILE.exists(), json.load; no file: restore_config
\* returns False (line 201)
LoadRead(t) ==
    /\ pc[t] = "ld_157"
    /\ IF state_file.exists
       THEN /\ data' = [data EXCEPT ![t] = state_file.saved_config]
            /\ Goto(t, "ld_161")
            /\ UNCHANGED Ghost
       ELSE /\ data' = data
            /\ Goto(t, "rd_536")
            /\ Log(t, "restore failed")
            /\ restore_result' = "failed"
    /\ fx' = {}
    /\ UNCHANGED <<running, state, enabled, saved_config, secondary_output, timers,
                   Disk, conn, display, has_connection, captured, remote_mode>>
    /\ UNCHANGED Queries

\* lines 161-162: self.saved_config = data.get("saved_config")
LoadAssign(t) ==
    /\ pc[t] = "ld_161"
    /\ saved_config' = data[t]
    /\ data' = [data EXCEPT ![t] = None]
    /\ IF data[t] # None
       THEN Goto(t, "rc_204") /\ UNCHANGED Ghost
       ELSE Goto(t, "rd_536") /\ Log(t, "restore failed") /\ restore_result' = "failed"
    /\ fx' = {}
    /\ UNCHANGED <<running, state, enabled, secondary_output, timers,
                   Disk, conn, display, has_connection, captured, remote_mode>>
    /\ UNCHANGED Queries

\* lines 204-213: self.saved_config.get("outputs", []) and the search for
\* self.secondary_output. On None the AttributeError leaves the handler:
\* _monitor_loop catches it (line 462), a DBus method returns an error.
RestoreFind(t) ==
    /\ pc[t] = "rc_204"
    /\ IF saved_config = None
       THEN /\ Goto(t, Ret(t))
            /\ fx' = {"AttributeError"}
            /\ EndLog(t)
            /\ UNCHANGED restore_result
       ELSE IF secondary_output \in OutputsOf(saved_config)
       THEN /\ Goto(t, "rc_217")
            /\ fx' = {}
            /\ UNCHANGED Ghost
       ELSE /\ Goto(t, "rd_536")
            /\ fx' = {}
            /\ Log(t, "restore failed")
            /\ restore_result' = "failed"
    /\ UNCHANGED <<running, state, enabled, saved_config, secondary_output, timers,
                   Disk, conn, display, Locals, remote_mode>>
    /\ UNCHANGED Queries

\* Variant of RestoreRun that goes on to clear the saved state when the
\* display tool failed
RestoreRunClearingOnFailure(t) ==
    /\ pc[t] = "rc_217"
    /\ \E ok \in BOOLEAN :
        /\ display' = IF ok THEN display \cup {secondary_output} ELSE display
        /\ fx' = {IF ok THEN "restore" ELSE "restore failed"}
    /\ Goto(t, "rc_169")
    /\ UNCHANGED <<running, state, enabled, saved_config, secondary_output, timers,
                   Disk, conn, Locals, remote_mode, Ghost>>
    /\ UNCHANGED Queries

\* lines 217-251: the enable/position/mode directives for
\* self.secondary_output in one kscreen-doctor run
RestoreRun(t) ==
    /\ pc[t] = "rc_217"
    /\ \E ok \in BOOLEAN :
        /\ IF ok
           THEN /\ display' = display \cup {secondary_output}
                /\ Goto(t, "rc_169")
                /\ UNCHANGED Ghost
           ELSE /\ display' = display
                /\ Goto(t, "rd_536")
                /\ Log(t, "restore failed")
                /\ restore_result' = "failed"
        /\ fx' = {IF ok THEN "restore" ELSE "restore failed"}
    /\ UNCHANGED <<running, state, enabled, saved_config, secondary_output, timers,
                   Disk, conn, Locals, remote_mode>>
    /\ UNCHANGED Queries

\* lines 240 and 169: _clear_disk_state, if STATE_FILE.exists()
RestoreFileExists(t) ==
    /\ pc[t] = "rc_169"
    /\ Goto(t, IF state_file.exists THEN "rc_170" ELSE "rc_241")
    /\ fx' = {}
    /\ UNCHANGED <<running, state, enabled, saved_config, secondary_output, timers,
                   Disk, conn, display, Locals, remote_mode, Ghost>>
    /\ UNCHANGED Queries

\* line 170: STATE_FILE.unlink(). If the file went meanwhile, the
\* FileNotFoundError is caught at line 249 and restore_config returns False.
RestoreClearDisk(t) ==
    /\ pc[t] = "rc_170"
    /\ state_file' = NoStateFile
    /\ IF state_file.exists
       THEN Goto(t, "rc_241") /\ UNCHANGED Ghost
       ELSE Goto(t, "rd_536") /\ Log(t, "restore failed") /\ restore_result' = "failed"
    /\ fx' = {"unlink"}
    /\ UNCHANGED <<running, state, enabled, saved_config, secondary_output, timers,
                   config_file, conn, display, Locals, remote_mode>>
    /\ UNCHANGED Queries

\* lines 241-242: self.saved_config = None; return True
RestoreClearSaved(t) ==
    /\ pc[t] = "rc_241"
    /\ saved_config' = None
    /\ Goto(t, "rd_536")
    /\ fx' = {}
    /\ Log(t, "restore")
    /\ restore_result' = "restored"
    /\ UNCHANGED <<running, state, enabled, secondary_output, timers,
                   Disk, conn, display, Locals, remote_mode>>
    /\ UNCHANGED Queries

\* line 536: _transition_to(IDLE), whatever restore_config returned
RestoreIdle(t) ==
    /\ pc[t] = "rd_536"
    /\ state' = "IDLE"
    /\ Goto(t, "rd_537")
    /\ fx' = {}
    /\ Log(t, "IDLE")
    /\ UNCHANGED <<running, enabled, saved_config, secondary_output, timers,
                   Disk, conn, display, Locals, remote_mode, restore_result>>
    /\ UNCHANGED Queries

\* line 537: self.RemoteModeChanged(False)
RestoreSignal(t) ==
    /\ pc[t] = "rd_537"
    /\ remote_mode' = "False"
    /\ Goto(t, Ret(t))
    /\ fx' = {"RemoteModeChanged(False)"}
    /\ EndLog(t)
    /\ UNCHANGED <<running, state, enabled, saved_config, secondary_output, timers,
                   Disk, conn, display, Locals, restore_result>>
    /\ UNCHANGED Queries

----------------------------------------------------------------------------
(* The GLib main loop: one callback at a time, started when it is idle.    *)

\* Variant of DebounceFire without the test of line 489
DebounceFireAnyState ==
    /\ pc["ev"] = "idle"
    /\ timers > 0
    /\ timers' = timers - 1
    /\ Goto("ev", "dc_492")
    /\ fx' = {"timer"}
    /\ UNCHANGED <<running, state, enabled, saved_config, secondary_output,
                   Disk, conn, display, Locals, remote_mode, Ghost>>
    /\ UNCHANGED Queries

\* line 489: the debounce callback fires (once: it returns False)
DebounceFire ==
    /\ pc["ev"] = "idle"
    /\ timers > 0
    /\ timers' = timers - 1
    /\ Goto("ev", IF state = "DETECTED" THEN "dc_492" ELSE "idle")
    /\ fx' = {"timer"}
    /\ UNCHANGED <<running, state, enabled, saved_config, secondary_output,
                   Disk, conn, display, Locals, remote_mode, Ghost>>
    /\ UNCHANGED Queries

\* Variant of DebounceRecheck that switches whatever the recheck finds
DebounceRecheckIgnoringDrop ==
    /\ pc["ev"] = "dc_492"
    /\ Goto("ev", "sw_503")
    /\ fx' = {"ss"}
    /\ steps' = Append(steps, IF conn THEN "connection" ELSE "no connection")
    /\ UNCHANGED <<running, state, enabled, saved_config, secondary_output, timers,
                   Disk, conn, display, Locals, remote_mode, restore_result>>
    /\ UNCHANGED Queries

\* line 492: if self.connection_monitor.has_remote_connection()
DebounceRecheck ==
    /\ pc["ev"] = "dc_492"
    /\ Goto("ev", IF conn THEN "sw_503" ELSE "dc_497")
    /\ fx' = {"ss"}
    /\ steps' = Append(steps, IF conn THEN "connection" ELSE "no connection")
    /\ UNCHANGED <<running, state, enabled, saved_config, secondary_output, timers,
                   Disk, conn, display, Locals, remote_mode, restore_result>>
    /\ UNCHANGED Queries

\* line 497: _transition_to(IDLE)
DebounceCancel ==
    /\ pc["ev"] = "dc_497"
    /\ state' = "IDLE"
    /\ Goto("ev", "idle")
    /\ fx' = {"returning to idle"}
    /\ steps' = <<>>
    /\ UNCHANGED <<running, enabled, saved_config, secondary_output, timers,
                   Disk, conn, display, Locals, remote_mode, restore_result>>
    /\ UNCHANGED Queries

(* _switch_to_remote_mode *)

\* line 503
SwitchBegin ==
    /\ pc["ev"] = "sw_503"
    /\ state' = "SWITCHING"
    /\ Goto("ev", "sw_137")
    /\ fx' = {}
    /\ steps' = Append(steps, "SWITCHING")
    /\ UNCHANGED <<running, enabled, saved_config, secondary_output, timers,
                   Disk, conn, display, Locals, remote_mode, restore_result>>
    /\ UNCHANGED Queries

\* lines 110-133: get_current_config; {} on any failure
SaveQuery ==
    /\ pc["ev"] = "sw_137"
    /\ \E ok \in BOOLEAN :
        captured' = IF ok THEN Topology(display) ELSE Empty
    /\ Goto("ev", "sw_137w")
    /\ fx' = {"query"}
    /\ UNCHANGED <<running, state, enabled, saved_config, secondary_output, timers,
                   Disk, conn, display, has_connection, data, remote_mode, Ghost>>
    /\ UNCHANGED Queries

\* line 137: self.saved_config = <the result>
SaveAssign ==
    /\ pc["ev"] = "sw_137w"
    /\ saved_config' = captured
    /\ captured' = None
    /\ Goto("ev", "sw_138")
    /\ fx' = {}
    /\ UNCHANGED <<running, state, enabled, secondary_output, timers,
                   Disk, conn, display, has_connection, data, remote_mode, Ghost>>
    /\ UNCHANGED Queries

\* line 138: if self.saved_config; line 506: if not save_current_config()
SaveTest ==
    /\ pc["ev"] = "sw_138"
    /\ IF Truthy(saved_config)
       THEN Goto("ev", "sw_148") /\ steps' = steps
       ELSE Goto("ev", "sw_508") /\ steps' = Append(steps, "save failed")
    /\ fx' = {}
    /\ UNCHANGED <<running, state, enabled, saved_config, secondary_output, timers,
                   Disk, conn, display, Locals, remote_mode, restore_result>>
    /\ UNCHANGED Queries

\* lines 145-153: _save_to_disk
SaveToDisk ==
    /\ pc["ev"] = "sw_148"
    /\ state_file' = [exists |-> TRUE, saved_config |-> saved_config,
                      secondary_output |-> secondary_output]
    /\ Goto("ev", "sw_512")
    /\ fx' = {"save"}
    /\ steps' = Append(steps, "save")
    /\ restore_result' = "none"
    /\ UNCHANGED <<running, state, enabled, saved_config, secondary_output, timers,
                   config_file, conn, display, Locals, remote_mode>>
    /\ UNCHANGED Queries

\* Variant of SwitchAbortSave without the return of line 509
SwitchAbortSaveNoReturn ==
    /\ pc["ev"] = "sw_508"
    /\ state' = "IDLE"
    /\ Goto("ev", "sw_512")
    /\ fx' = {}
    /\ UNCHANGED <<running, enabled, saved_config, secondary_output, timers,
                   Disk, conn, display, Locals, remote_mode, Ghost>>
    /\ UNCHANGED Queries

\* line 508: save failed, _transition_to(IDLE) and return
SwitchAbortSave ==
    /\ pc["ev"] = "sw_508"
    /\ state' = "IDLE"
    /\ Goto("ev", "idle")
    /\ fx' = {}
    /\ steps' = <<>>
    /\ UNCHANGED <<running, enabled, saved_config, secondary_output, timers,
                   Disk, conn, display, Locals, remote_mode, restore_result>>
    /\ UNCHANGED Queries

\* lines 512-516: terminate_rdp_sessions, terminate_vnc_sessions (results
\* dropped), sleep. Killing the servers can end the client's connection.
TerminateSessions ==
    /\ pc["ev"] = "sw_512"
    /\ \E ok \in BOOLEAN :
        /\ fx' = {IF ok THEN "terminate" ELSE "terminate failed"}
        /\ steps' = Append(steps, IF ok THEN "terminate" ELSE "terminate failed")
        /\ conn' \in (IF ok THEN {conn, FALSE} ELSE {conn})
    /\ Goto("ev", "sw_519")
    /\ UNCHANGED <<running, state, enabled, saved_config, secondary_output, timers,
                   Disk, display, Locals, remote_mode, restore_result>>
    /\ UNCHANGED Queries

\* lines 172-193 and 519: disable_secondary
DisableSecondary ==
    /\ pc["ev"] = "sw_519"
    /\ \E ok \in BOOLEAN :
        /\ display' = IF ok THEN display \ {secondary_output} ELSE display
        /\ Goto("ev", IF ok THEN "sw_521" ELSE "sw_525")
        /\ steps' = Append(steps, IF ok THEN "disable" ELSE "disable failed")
    /\ fx' = {"disable"}
    /\ UNCHANGED <<running, state, enabled, saved_config, secondary_output, timers,
                   Disk, conn, Locals, remote_mode, restore_result>>
    /\ UNCHANGED Queries

\* line 521
SwitchActive ==
    /\ pc["ev"] = "sw_521"
    /\ state' = "REMOTE_ACTIVE"
    /\ Goto("ev", "sw_522")
    /\ fx' = {}
    /\ steps' = Append(steps, "REMOTE_ACTIVE")
    /\ UNCHANGED <<running, enabled, saved_config, secondary_output, timers,
                   Disk, conn, display, Locals, remote_mode, restore_result>>
    /\ UNCHANGED Queries

\* line 522: self.RemoteModeChanged(True)
SwitchSignal ==
    /\ pc["ev"] = "sw_522"
    /\ remote_mode' = "True"
    /\ Goto("ev", "idle")
    /\ fx' = {"RemoteModeChanged(True)"}
    /\ steps' = <<>>
    /\ UNCHANGED <<running, state, enabled, saved_config, secondary_output, timers,
                   Disk, conn, display, Locals, restore_result>>
    /\ UNCHANGED Queries

\* Variant of SwitchAbortDisable that forgets the saved topology
SwitchAbortDisableClearing ==
    /\ pc["ev"] = "sw_525"
    /\ state' = "IDLE"
    /\ Goto("ev", "idle")
    /\ fx' = {}
    /\ steps' = <<>>
    /\ saved_config' = None
    /\ state_file' = NoStateFile
    /\ UNCHANGED <<running, enabled, secondary_output, timers,
                   config_file, conn, display, Locals, remote_mode, restore_result>>
    /\ UNCHANGED Queries

\* line 525: disable failed, _transition_to(IDLE)
SwitchAbortDisable ==
    /\ pc["ev"] = "sw_525"
    /\ state' = "IDLE"
    /\ Goto("ev", "idle")
    /\ fx' = {}
    /\ steps' = <<>>
    /\ UNCHANGED <<running, enabled, saved_config, secondary_output, timers,
                   Disk, conn, display, Locals, remote_mode, restore_result>>
    /\ UNCHANGED Queries

(* DBus methods *)

\* line 574: self.enabled = enabled
SetEnabled(b) ==
    /\ pc["ev"] = "idle"
    /\ enabled' = b
    /\ Goto("ev", IF b THEN "se_578" ELSE "se_576")
    /\ fx' = {IF b THEN "SetEnabled(True)" ELSE "SetEnabled(False)"}
    /\ UNCHANGED <<running, state, saved_config, secondary_output, timers,
                   Disk, conn, display, Locals, remote_mode, Ghost>>
    /\ UNCHANGED Queries

\* lines 575-580: _transition_to(DISABLED or IDLE), _save_config,
\* EnabledChanged. The parameter decides, not self.enabled.
SetEnabledState ==
    /\ pc["ev"] \in {"se_576", "se_578"}
    /\ state' = IF pc["ev"] = "se_576" THEN "DISABLED" ELSE "IDLE"
    /\ config_file' = [exists |-> TRUE, enabled |-> enabled,
                       secondary_output |-> secondary_output]
    /\ Goto("ev", "idle")
    /\ fx' = {IF pc["ev"] = "se_576" THEN "EnabledChanged(False)"
              ELSE "EnabledChanged(True)"}
    /\ UNCHANGED <<running, enabled, saved_config, secondary_output, timers,
                   state_file, conn, display, Locals, remote_mode, Ghost>>
    /\ UNCHANGED Queries

\* Variant of SwitchNow without the test of the state
SwitchNowAnyState ==
    /\ pc["ev"] = "idle"
    /\ Goto("ev", "sw_503")
    /\ fx' = {"SwitchNow"}
    /\ UNCHANGED <<running, state, enabled, saved_config, secondary_output, timers,
                   Disk, conn, display, Locals, remote_mode, Ghost>>
    /\ UNCHANGED Queries

\* lines 599-603
SwitchNow ==
    /\ pc["ev"] = "idle"
    /\ Goto("ev", IF state = "IDLE" THEN "sw_503" ELSE "idle")
    /\ fx' = {"SwitchNow"}
    /\ UNCHANGED <<running, state, enabled, saved_config, secondary_output, timers,
                   Disk, conn, display, Locals, remote_mode, Ghost>>
    /\ UNCHANGED Queries

\* lines 606-610
RestoreNow ==
    /\ pc["ev"] = "idle"
    /\ Goto("ev", IF state = "REMOTE_ACTIVE" THEN "rd_529" ELSE "idle")
    /\ fx' = {"RestoreNow"}
    /\ UNCHANGED <<running, state, enabled, saved_config, secondary_output, timers,
                   Disk, conn, display, Locals, remote_mode, Ghost>>
    /\ UNCHANGED Queries

\* lines 613-617
SetSecondaryOutput(o) ==
    /\ pc["ev"] = "idle"
    /\ secondary_output' = o
    /\ config_file' = [exists |-> TRUE, enabled |-> enabled, secondary_output |-> o]
    /\ fx' = {"SetSecondaryOutput"}
    /\ UNCHANGED <<running, state, enabled, saved_config, timers,
                   state_file, conn, display, pc, Locals, remote_mode, Ghost>>
    /\ UNCHANGED Queries

----------------------------------------------------------------------------
PollStep ==
    \/ PollTick \/ CheckDisabled \/ PollConnections \/ PollBranch
    \/ PollDetected \/ PollRestoring

RestoreStep(t) ==
    \/ RestoreBegin(t) \/ RestoreCheckSaved(t) \/ LoadRead(t) \/ LoadAssign(t)
    \/ RestoreFind(t) \/ RestoreRun(t) \/ RestoreFileExists(t) \/ RestoreClearDisk(t)
    \/ RestoreClearSaved(t) \/ RestoreIdle(t) \/ RestoreSignal(t)

HandlerStep ==
    \/ DebounceRecheck \/ DebounceCancel
    \/ SwitchBegin \/ SaveQuery \/ SaveAssign \/ SaveTest \/ SaveToDisk
    \/ SwitchAbortSave \/ TerminateSessions \/ DisableSecondary
    \/ SwitchActive \/ SwitchSignal \/ SwitchAbortDisable
    \/ SetEnabledState

Request ==
    \/ \E b \in BOOLEAN : SetEnabled(b)
    \/ SwitchNow
    \/ RestoreNow

Next ==
    \/ Start
    \/ Stop
    \/ ConnChange
    \/ PollStep
    \/ \E t \in Threads : RestoreStep(t)
    \/ DebounceFire
    \/ HandlerStep
    \/ Request

Spec == Init /\ [][Next]_vars

\* The same with the secondary output reconfigured at run time
NextOutputs == Next \/ \E o \in Outputs : SetSecondaryOutput(o)

SpecOutputs == Init /\ [][NextOutputs]_vars

\* The monitor thread keeps running, the main loop finishes the callback it
\* is in and fires the timers that are due. Requests, connections and the
\* end of the process are not forced.
EvStep == DebounceFire \/ HandlerStep \/ RestoreStep("ev")

FairSpec == Spec /\ WF_vars(PollStep \/ RestoreStep("poll")) /\ WF_vars(EvStep)

----------------------------------------------------------------------------
(* DisplayConfig on its own: its methods called one after another on one   *)
(* object, with the saved topology in full (the entries of "outputs" with  *)
(* their "pos" and "currentMode") and the kscreen-doctor command lines.    *)

\* Calls remembered in the log of a DisplayConfig object
MaxCalls == 2

\* A JSON object read with dict.get: the keys it has, and their values
Get(d, k, default) == IF k \in d.has THEN d[k] ELSE default
NonEmpty(d) == d.has # {}

\* int(refresh); refresh rates are in hundredths of Hz (5994 is 59.94)
IntOf(r) == r \div 100

NoPos == [has |-> {}, x |-> 0, y |-> 0]
PosValues == {NoPos,
              [has |-> {"x", "y"}, x |-> 1920, y |-> 0],
              [has |-> {"y"}, x |-> 0, y |-> 1080]}

NoMode == [has |-> {}, width |-> 0, height |-> 0, refreshRate |-> 0]
ModeValues == {NoMode,
               [has |-> {"width", "height", "refreshRate"},
                width |-> 2560, height |-> 1440, refreshRate |-> 5994],
               [has |-> {"width", "height"},
                width |-> 1280, height |-> 720, refreshRate |-> 0]}

\* The entries of "outputs": the secondary output in every recorded form,
\* the other output in one
SecondaryEntries == {[name |-> DefaultSecondary, pos |-> p, currentMode |-> m] :
                        p \in PosValues, m \in ModeValues}
OtherEntry == [name |-> "DP-1", pos |-> [has |-> {"x", "y"}, x |-> 0, y |-> 0],
               currentMode |-> NoMode]

FullTopology(outputs) == [kind |-> "Dict", outputs |-> outputs]
FullTopologies == {FullTopology(os) :
                     os \in {<<>>, <<OtherEntry>>}
                            \cup {<<e>> : e \in SecondaryEntries}
                            \cup {<<OtherEntry, e>> : e \in SecondaryEntries}}

\* What a run of `kscreen-doctor -j` can give
QueryRuns == {[rc |-> c, stdout |-> Empty] : c \in {"timeout", "missing", "failed", "malformed"}}
             \cup {[rc |-> "ok", stdout |-> o] : o \in FullTopologies \cup {Empty}}

\* lines 110-133
get_current_config(run) == IF run.rc = "ok" THEN run.stdout ELSE Empty

\* lines 135-153: save_current_config with _save_to_disk
save_current_config(run, saved, file, name) ==
    LET q == get_current_config(run)
    IN  IF Truthy(q)
        THEN [ret |-> TRUE, saved_config |-> q,
              state_file |-> [exists |-> TRUE, saved_config |-> q,
                              secondary_output |-> name]]
        ELSE [ret |-> FALSE, saved_config |-> q, state_file |-> file]

\* lines 204-213: the first entry of outputs named as the secondary output
EntriesOf(c) == IF c.kind = "Dict" THEN c.outputs ELSE <<>>
Matches(c, name) == {i \in DOMAIN EntriesOf(c) : EntriesOf(c)[i].name = name}
FirstMatch(c, name) ==
    EntriesOf(c)[CHOOSE i \in Matches(c, name) : \A j \in Matches(c, name) : i <= j]

\* lines 217-228: the directives of the restore command
Directive(op, name, args) == [op |-> op, out |-> name, args |-> args]
RestoreCommands(name, secondary) ==
    LET pos == secondary.pos
        mode == secondary.currentMode
    IN  <<Directive("enable", name, <<>>)>>
        \o (IF NonEmpty(pos)
            THEN <<Directive("position", name, <<Get(pos, "x", 0), Get(pos, "y", 0)>>)>>
            ELSE <<>>)
        \o (IF NonEmpty(mode)
            THEN <<Directive("mode", name,
                             <<Get(mode, "width", 1920), Get(mode, "height", 1080),
                               IntOf(Get(mode, "refreshRate", 6000))>>)>>
            ELSE <<>>)

\* Variant of restore_config that runs the display tool without a saved
\* topology, enabling the output with no other directive
restore_config_unchecked(saved, file, name, disp, toolOk) ==
    LET load == ~Truthy(saved) /\ file.exists
        mem == IF load THEN file.saved_config ELSE saved
        cmds == IF Matches(mem, name) # {}
                THEN RestoreCommands(name, FirstMatch(mem, name))
                ELSE <<Directive("enable", name, <<>>)>>
    IN  IF toolOk
        THEN [ret |-> TRUE, saved_config |-> None, state_file |-> NoStateFile,
              display |-> disp \cup {name}, commands |-> {cmds}]
        ELSE [ret |-> FALSE, saved_config |-> mem, state_file |-> file,
              display |-> disp, commands |-> {cmds}]

\* Variant of restore_config that clears the saved state whatever the
\* display tool returned
restore_config_clearing(saved, file, name, disp, toolOk) ==
    LET load == ~Truthy(saved) /\ file.exists
        mem == IF load THEN file.saved_config ELSE saved
    IN  IF (~Truthy(saved) /\ ~(file.exists /\ file.saved_config # None))
           \/ Matches(mem, name) = {}
        THEN [ret |-> FALSE, saved_config |-> mem, state_file |-> file,
              display |-> disp, commands |-> {}]
        ELSE [ret |-> toolOk, saved_config |-> None, state_file |-> NoStateFile,
              display |-> IF toolOk THEN disp \cup {name} ELSE disp,
              commands |-> {RestoreCommands(name, FirstMatch(mem, name))}]

\* lines 195-251, with _load_from_disk (155-165) and _clear_disk_state
restore_config(saved, file, name, disp, toolOk) ==
    LET load == ~Truthy(saved) /\ file.exists
        mem == IF load THEN file.saved_config ELSE saved
    IN  IF (~Truthy(saved) /\ ~(file.exists /\ file.saved_config # None))
           \/ Matches(mem, name) = {}
        THEN [ret |-> FALSE, saved_config |-> mem, state_file |-> file,
              display |-> disp, commands |-> {}]
        ELSE IF toolOk
        THEN [ret |-> TRUE, saved_config |-> None, state_file |-> NoStateFile,
              display |-> disp \cup {name},
              commands |-> {RestoreCommands(name, FirstMatch(mem, name))}]
        ELSE [ret |-> FALSE, saved_config |-> mem, state_file |-> file,
              display |-> disp,
              commands |-> {RestoreCommands(name, FirstMatch(mem, name))}]

\* The log keeps the outcomes of the last MaxCalls calls
Called(e) == IF Len(steps) < MaxCalls THEN Append(steps, e)
             ELSE Append(Tail(steps), e)

\* What the DisplayConfig methods never touch
Service == <<running, state, enabled, secondary_output, timers, config_file, conn,
             pc, has_connection, data, remote_mode, Queries>>

CallSave ==
    \E run \in QueryRuns :
        LET r == save_current_config(run, saved_config, state_file, secondary_output)
        IN  /\ captured' = get_current_config(run)
            /\ saved_config' = r.saved_config
            /\ state_file' = r.state_file
            /\ fx' = {}
            /\ steps' = Called(IF r.ret THEN "save" ELSE "save failed")
            /\ UNCHANGED <<display, restore_result, Service>>

CallDisable ==
    \E ok \in BOOLEAN :
        /\ display' = IF ok THEN display \ {secondary_output} ELSE display
        /\ fx' = {<<Directive("disable", secondary_output, <<>>)>>}
        /\ steps' = Called(IF ok THEN "disable" ELSE "disable failed")
        /\ UNCHANGED <<saved_config, state_file, captured, restore_result, Service>>

CallRestore ==
    \E toolOk \in BOOLEAN :
        LET r == restore_config(saved_config, state_file, secondary_output,
                                display, toolOk)
        IN  /\ saved_config' = r.saved_config
            /\ state_file' = r.state_file
            /\ display' = r.display
            /\ fx' = r.commands
            /\ restore_result' = IF r.ret THEN "restored" ELSE "failed"
            /\ steps' = Called(IF r.ret THEN "restore" ELSE "restore failed")
            /\ UNCHANGED <<captured, Service>>

\* The process is restarted: a new object, the file and the display stay
NewObject ==
    /\ saved_config' = None
    /\ captured' = None
    /\ fx' = {}
    /\ steps' = <<>>
    /\ restore_result' = "none"
    /\ UNCHANGED <<state_file, display, Service>>

NextDisplayConfig == CallSave \/ CallDisable \/ CallRestore \/ NewObject

SpecDisplayConfig == Init /\ [][NextDisplayConfig]_vars

----------------------------------------------------------------------------
(* ConnectionMonitor on its own: check_connections over what the runs of   *)
(* `ss -tn state established ( sport = :port )` give, one run per port.    *)

\* line 258-259: the default port lists
RdpPorts == <<3389>>
VncPorts == <<5900, 5901, 5902>>

\* Lines of ss output, split into fields: the header, a connection with and
\* without a fifth field, a short line
SsHeader == <<"Recv-Q", "Send-Q", "Local", "Peer">>
SsLines == {<<"0", "0", "host:port", "peer:1">>,
            <<"0", "0", "host:port", "peer:2", "users">>,
            <<"0", "0", "host:port">>}
SsOutputs == {<<>>, <<SsHeader>>}
             \cup {<<SsHeader, l>> : l \in SsLines}
             \cup {<<l, l>> : l \in SsLines}
SsRuns == {[rc |-> c, lines |-> <<>>] : c \in {"timeout", "missing"}}
          \cup {[rc |-> "ok", lines |-> o] : o \in SsOutputs}

\* lines 293-300: the loop over split('\n')[1:]
RECURSIVE ParseSsLines(_)
ParseSsLines(lines) ==
    IF lines = <<>> THEN <<>>
    ELSE LET parts == Head(lines)
         IN  (IF Len(parts) >= 4
              THEN <<[local |-> parts[4],
                      remote |-> IF Len(parts) > 4 THEN parts[5] ELSE "unknown"]>>
              ELSE <<>>)
             \o ParseSsLines(Tail(lines))

\* lines 283-304
_check_port(run) ==
    IF run.rc \in {"timeout", "missing"} THEN <<>>
    ELSE IF run.lines = <<>> THEN <<>>
    ELSE ParseSsLines(Tail(run.lines))

\* lines 270-278: connections[...].extend(conns), port after port
RECURSIVE ExtendAll(_, _, _)
ExtendAll(rs, from, to) ==
    IF from > to THEN <<>>
    ELSE _check_port(rs[from]) \o ExtendAll(rs, from + 1, to)

\* Variant of check_connections in which the failure of a lookup ends the
\* loop over the ports
RECURSIVE ExtendUntilFailure(_, _, _)
ExtendUntilFailure(rs, from, to) ==
    IF from > to \/ rs[from].rc # "ok" THEN <<>>
    ELSE _check_port(rs[from]) \o ExtendUntilFailure(rs, from + 1, to)

check_connections_stopping(rs) ==
    LET rdp == ExtendUntilFailure(rs, 1, Len(RdpPorts))
        vnc == ExtendUntilFailure(rs, Len(RdpPorts) + 1, Len(RdpPorts) + Len(VncPorts))
    IN  [rdp |-> rdp, vnc |-> vnc, total |-> Len(rdp) + Len(vnc)]

\* lines 262-281
check_connections(rs) ==
    LET rdp == ExtendAll(rs, 1, Len(RdpPorts))
        vnc == ExtendAll(rs, Len(RdpPorts) + 1, Len(RdpPorts) + Len(VncPorts))
    IN  [rdp |-> rdp, vnc |-> vnc, total |-> Len(rdp) + Len(vnc)]

\* lines 306-308
has_remote_connection(rs) == check_connections(rs).total > 0

NoConnections == [rdp |-> <<>>, vnc |-> <<>>, total |-> 0]

InitConnections ==
    /\ Constructed
    /\ runs \in [1..(Len(RdpPorts) + Len(VncPorts)) -> SsRuns]
    /\ returned = NoConnections

\* check_connections and has_remote_connection on the same runs
Lookup ==
    /\ fx = {}
    /\ returned' = check_connections(runs)
    /\ has_connection' = has_remote_connection(runs)
    /\ fx' = {"ss"}
    /\ UNCHANGED <<running, state, enabled, saved_config, secondary_output, timers,
                   Disk, conn, display, pc, data, captured, Ghost, remote_mode, runs>>

NextConnections == Lookup

SpecConnections == InitConnections /\ [][NextConnections]_vars

----------------------------------------------------------------------------
(* GetDisplays on its own: the parse of the `kscreen-doctor -o` listing.   *)

\* Lines of a listing
MaxListing == 4

\* A cleaned line, by what the parser looks for in it: the Output header's
\* number and name, the mode marked with '*' (resolution, refresh rate
\* before and after the '.'), the Geometry size
Line(kind, index, name, marked, res, refresh) ==
    [kind |-> kind, index |-> index, name |-> name, marked |-> marked,
     res |-> res, refresh |-> refresh]
Plain(kind) == Line(kind, 0, "", FALSE, "", <<"", "">>)

ListingLines ==
    {Line("Output", 1, "HDMI-A-1", FALSE, "", <<"", "">>),
     Line("Output", 2, "DP-1", FALSE, "", <<"", "">>),
     Plain("enabled"), Plain("disabled"), Plain("priority 1"), Plain("blank"),
     \* "Modes: 1:1920x1080@60.00*", "Modes: 2:2560x1440@143.99*",
     \* "Modes: 3:1280x720@60.00" (no mode is marked)
     Line("Modes", 0, "", TRUE, "1920x1080", <<"60", "00">>),
     Line("Modes", 0, "", TRUE, "2560x1440", <<"143", "99">>),
     Line("Modes", 0, "", FALSE, "1280x720", <<"60", "00">>),
     \* "Geometry: 0,0 1024x768", and "Geometry: 0,-1080 1024x768" which
     \* the pattern \d+,\d+ does not match
     Line("Geometry", 0, "", TRUE, "1024x768", <<"", "">>),
     Line("Geometry", 0, "", FALSE, "1024x768", <<"", "">>)}

RECURSIVE SeqsUpTo(_, _)
SeqsUpTo(S, n) ==
    IF n = 0 THEN {<<>>}
    ELSE LET shorter == SeqsUpTo(S, n - 1)
         IN  shorter \cup {Append(q, x) : q \in shorter, x \in S}

DisplayRuns == {[rc |-> c, lines |-> <<>>] : c \in {"failed", "timeout", "missing"}}
               \cup {[rc |-> "ok", lines |-> l] : l \in SeqsUpTo(ListingLines, MaxListing)}

\* lines 669-676: the descriptor an Output header starts
NewDisplay(line) ==
    [index |-> line.index, name |-> line.name, enabled |-> TRUE,
     resolution |-> "", refreshRate |-> "", primary |-> FALSE]

NoDisplays == [displays |-> <<>>, some |-> FALSE, current |-> NewDisplay(Plain("blank"))]

\* Variant of ParseLine in which a Geometry line sets the resolution
\* whether or not one is already there
ParseLineGeometryOverwrites(acc, line) ==
    IF line.kind = "blank" THEN acc
    ELSE IF line.kind = "Output"
    THEN [displays |-> IF acc.some THEN Append(acc.displays, acc.current)
                       ELSE acc.displays,
          some |-> TRUE, current |-> NewDisplay(line)]
    ELSE IF ~acc.some THEN acc
    ELSE [acc EXCEPT !.current =
            IF line.kind = "enabled" THEN [@ EXCEPT !.enabled = TRUE]
            ELSE IF line.kind = "disabled" THEN [@ EXCEPT !.enabled = FALSE]
            ELSE IF line.kind = "priority 1" THEN [@ EXCEPT !.primary = TRUE]
            ELSE IF line.kind = "Modes" /\ line.marked
            THEN [@ EXCEPT !.resolution = line.res, !.refreshRate = line.refresh[1]]
            ELSE IF line.kind = "Geometry" /\ line.marked
            THEN [@ EXCEPT !.resolution = line.res]
            ELSE @]

\* lines 658-706: the body of the loop over the lines
ParseLine(acc, line) ==
    IF line.kind = "blank" THEN acc
    ELSE IF line.kind = "Output"
    THEN [displays |-> IF acc.some THEN Append(acc.displays, acc.current)
                       ELSE acc.displays,
          some |-> TRUE, current |-> NewDisplay(line)]
    ELSE IF ~acc.some THEN acc
    ELSE [acc EXCEPT !.current =
            IF line.kind = "enabled" THEN [@ EXCEPT !.enabled = TRUE]
            ELSE IF line.kind = "disabled" THEN [@ EXCEPT !.enabled = FALSE]
            ELSE IF line.kind = "priority 1" THEN [@ EXCEPT !.primary = TRUE]
            ELSE IF line.kind = "Modes" /\ line.marked
            THEN [@ EXCEPT !.resolution = line.res, !.refreshRate = line.refresh[1]]
            ELSE IF line.kind = "Geometry" /\ line.marked /\ @.resolution = ""
            THEN [@ EXCEPT !.resolution = line.res]
            ELSE @]

RECURSIVE ParseLines(_, _)
ParseLines(acc, lines) ==
    IF lines = <<>> THEN acc
    ELSE ParseLines(ParseLine(acc, Head(lines)), Tail(lines))

\* lines 625-714
GetDisplays(run) ==
    IF run.rc # "ok" THEN <<>>
    ELSE LET acc == ParseLines(NoDisplays, run.lines)
         IN  IF acc.some THEN Append(acc.displays, acc.current) ELSE acc.displays

InitDisplays ==
    /\ Constructed
    /\ runs \in {<<r>> : r \in DisplayRuns}
    /\ returned = <<>>

CallGetDisplays ==
    /\ fx = {}
    /\ returned' = GetDisplays(runs[1])
    /\ fx' = {"kscreen-doctor -o"}
    /\ UNCHANGED <<running, state, enabled, saved_config, secondary_output, timers,
                   Disk, conn, display, pc, Locals, Ghost, remote_mode, runs>>

NextDisplays == CallGetDisplays

SpecDisplays == InitDisplays /\ [][NextDisplays]_vars

----------------------------------------------------------------------------
(* Vocabulary of the properties *)

RestoreLabels == {"rd_529", "rc_197", "ld_157", "ld_161", "rc_204", "rc_217",
                  "rc_169", "rc_170", "rc_241", "rd_536", "rd_537"}

SwitchLabels == {"sw_503", "sw_137", "sw_137w", "sw_138", "sw_148", "sw_508",
                 "sw_512", "sw_519", "sw_521", "sw_522", "sw_525"}

\* The callback in progress has done e / has done a before b
Has(e) == \E i \in DOMAIN steps : steps[i] = e
Before(a, b) == \E i, j \in DOMAIN steps : i < j /\ steps[i] = a /\ steps[j] = b
Last(q) == q[Len(q)]

Terminated == Has("terminate") \/ Has("terminate failed")
Signals == {"RemoteModeChanged(True)", "RemoteModeChanged(False)"}

\* Context t leaves the position it is in, the process staying alive
Leaves(t, l) == pc[t] = l /\ pc'[t] # l /\ running'

----------------------------------------------------------------------------
(* C1: the state file exists exactly while the daemon believes it has the  *)
(* secondary output disabled: REMOTE_ACTIVE implies the file, and the file *)
(* implies REMOTE_ACTIVE or a switch or restore in progress.               *)
C1_FileIffRemoteMode ==
    running =>
        /\ state = "REMOTE_ACTIVE" => state_file.exists
        /\ state_file.exists => state \in {"SWITCHING", "REMOTE_ACTIVE", "RESTORING"}

(* C1, as amended: the state file is written only by the save step of a    *)
(* switch sequence (with the in-memory saved topology), and removed only   *)
(* by a restore that comes from a display-tool run that succeeded, during  *)
(* operation or in the crash recovery at startup. It outlives an aborted   *)
(* switch and a failed restore, with the controller back in IDLE.          *)
C1_WrittenBySaveRemovedByRestore ==
    [][ /\ (state_file'.exists /\ state_file' # state_file) =>
              /\ pc["ev"] = "sw_148"
              /\ state_file'.saved_config = saved_config
        /\ (state_file.exists /\ ~state_file'.exists) =>
              \/ \E t \in Threads : pc[t] = "rc_170"
              \/ ~running /\ running' /\ "restore" \in fx'
        /\ \A t \in Threads : (pc'[t] = "rc_169" /\ pc[t] # "rc_169") =>
              "restore" \in fx'
      ]_vars

\* C1 witness: a restore has just removed the file of a completed switch
C1_Witness ==
    /\ fx = {"unlink"}
    /\ ~state_file.exists
    /\ restore_result = "none"
    /\ DefaultSecondary \in display

(* C2: from REMOTE_ACTIVE with the connection gone for good, the restore   *)
(* sequence eventually runs: restore_config has been attempted and the     *)
(* controller is put in IDLE by _restore_displays (line 536).              *)
C2_RestoreEventuallyRuns ==
    (running /\ state = "REMOTE_ACTIVE" /\ ~conn)
        ~> (\/ conn
            \/ ~running
            \/ state = "IDLE" /\ \E t \in Threads : pc[t] = "rd_537")

(* C3: every restore sequence ends by putting the controller in IDLE and   *)
(* emitting RemoteModeChanged(False): a context leaves _restore_displays   *)
(* only through line 537.                                                  *)
C3_RestoreEndsIdleAndNotifies ==
    [][ \A t \in Threads :
          (pc[t] \in RestoreLabels /\ pc'[t] \notin RestoreLabels /\ running') =>
              /\ pc[t] = "rd_537"
              /\ "RemoteModeChanged(False)" \in fx'
      ]_vars

(* C4: the switch sequence enters SWITCHING, saves, terminates sessions,   *)
(* disables, in this order. A failed save aborts to IDLE with no           *)
(* termination and no disable; a failed termination is followed by the     *)
(* disable; REMOTE_ACTIVE and RemoteModeChanged(True) come only after a    *)
(* successful save and a successful disable.                               *)
C4_SwitchOrder ==
    /\ [](/\ Has("save") => Before("SWITCHING", "save")
          /\ Has("save failed") => Before("SWITCHING", "save failed")
          /\ Terminated => Before("save", "terminate") \/ Before("save", "terminate failed")
          /\ (Has("disable") \/ Has("disable failed")) =>
                \/ Before("terminate", "disable") \/ Before("terminate failed", "disable")
                \/ Before("terminate", "disable failed")
                \/ Before("terminate failed", "disable failed")
          /\ Has("save failed") => ~Terminated /\ ~Has("disable") /\ ~Has("disable failed")
                                    /\ pc["ev"] = "sw_508"
          /\ (steps # <<>> /\ Last(steps) \in {"terminate", "terminate failed"}) =>
                pc["ev"] = "sw_519"
          /\ Has("REMOTE_ACTIVE") =>
                /\ Before("save", "disable") /\ Before("disable", "REMOTE_ACTIVE")
                /\ ~Has("disable failed") /\ ~Has("save failed"))
    /\ [][ /\ Leaves("ev", "sw_508") => state' = "IDLE" /\ pc'["ev"] = "idle"
           /\ (state' = "REMOTE_ACTIVE" /\ state # "REMOTE_ACTIVE") =>
                 steps' # <<>> /\ Last(steps') = "REMOTE_ACTIVE"
           /\ "RemoteModeChanged(True)" \in fx' =>
                 steps # <<>> /\ Last(steps) = "REMOTE_ACTIVE" /\ state' = state
         ]_vars

\* C4 witness: remote mode entered although the session termination failed
C4_Witness ==
    /\ state = "REMOTE_ACTIVE"
    /\ steps = <<"SWITCHING", "save", "terminate failed", "disable", "REMOTE_ACTIVE">>
    /\ DefaultSecondary \notin display

(* C5: when the disable fails, the switch sequence puts the controller in  *)
(* IDLE, emits no RemoteModeChanged, and leaves the state file and the     *)
(* in-memory saved topology as the save step wrote them.                   *)
C5_DisableFailureKeepsSave ==
    /\ []((steps # <<>> /\ Last(steps) = "disable failed") =>
            pc["ev"] = "sw_525" /\ ~Has("REMOTE_ACTIVE") /\ Has("save"))
    /\ [][ Leaves("ev", "sw_525") =>
             /\ state' = "IDLE"
             /\ pc'["ev"] = "idle"
             /\ fx' \cap Signals = {}
             /\ remote_mode' = remote_mode
             /\ state_file' = state_file
             /\ saved_config' = saved_config
         ]_vars

\* C5 witness: back in IDLE after the failed disable, the file still holds
\* the topology with the secondary output enabled
C5_Witness ==
    /\ pc["ev"] = "sw_525"
    /\ state = "SWITCHING"
    /\ steps = <<"SWITCHING", "save", "terminate", "disable failed">>
    /\ state_file.exists
    /\ state_file.saved_config = Topology(Outputs)
    /\ remote_mode = "unset"

(* C6: after a failed restore the state file is still there and a later    *)
(* RestoreNow attempts the restore again from it.                          *)
C6_ManualRestoreRetries ==
    (fx = {"RestoreNow"} /\ restore_result = "failed" /\ state_file.exists)
        => pc["ev"] = "rd_529"

(* C7: when the debounce callback finds the connection gone, it puts the   *)
(* controller in IDLE and does nothing else: no SWITCHING, no save, no     *)
(* session termination, no disable.                                        *)
C7_DebounceCancellation ==
    /\ [](pc["ev"] = "dc_497" => steps = <<"no connection">>)
    /\ [][ /\ (Leaves("ev", "dc_492") /\ ~conn) => pc'["ev"] = "dc_497"
           /\ Leaves("ev", "dc_497") =>
                 /\ state' = "IDLE"
                 /\ pc'["ev"] = "idle"
                 /\ fx' = {"returning to idle"}
                 /\ UNCHANGED <<saved_config, state_file, display, timers,
                                remote_mode, conn>>
         ]_vars

\* C7 witness: a detection has been cancelled
C7_Witness ==
    /\ fx = {"returning to idle"}
    /\ state = "IDLE"
    /\ pc["ev"] = "idle"
    /\ ~state_file.exists
    /\ display = Outputs

(* C8: a poll tick that runs while the controller is in SWITCHING changes  *)
(* nothing: it makes no transition, arms no timer, and touches neither     *)
(* the saved topology, the state file nor the display.                     *)
C8_NoReentrancy ==
    /\ [](\A i, j \in DOMAIN steps :
            (steps[i] = "save" /\ steps[j] = "save") => i = j)
    /\ [][ (/\ running /\ running'
         /\ state = "SWITCHING"
         /\ pc["poll"] \in {"wait", "cc_469", "cc_472", "cc_474"}
         /\ pc'["poll"] # pc["poll"]) =>
            /\ pc'["poll"] \in {"wait", "cc_469", "cc_472", "cc_474"}
            /\ UNCHANGED <<state, timers, saved_config, state_file, display>>
        ]_vars

\* C8 witness: with a connection present, a tick is at its test of the
\* state while the switch sequence is about to disable the output
C8_Witness ==
    /\ state = "SWITCHING"
    /\ pc["poll"] = "cc_474"
    /\ has_connection
    /\ pc["ev"] = "sw_519"
    /\ Has("save")

(* C9: at most one switch or restore sequence is in flight: the monitor    *)
(* thread is never inside a restore while the main loop is inside a        *)
(* restore or a switch.                                                    *)
C9_OneSequenceInFlight ==
    ~(/\ pc["poll"] \in RestoreLabels
      /\ pc["ev"] \in RestoreLabels \cup SwitchLabels)

(* C10: once SetEnabled(False) has put the controller in DISABLED, the     *)
(* state stays DISABLED, no timer is armed and neither the display nor     *)
(* the state file changes until SetEnabled(True).                          *)
C10_DisabledUntilEnabled ==
    [][ (running /\ running' /\ state = "DISABLED" /\ ~enabled /\ ~enabled') =>
            /\ state' = "DISABLED"
            /\ timers' <= timers
            /\ UNCHANGED <<display, state_file>>
      ]_vars

(* C11: SwitchNow requested in a state other than IDLE, and RestoreNow     *)
(* requested in a state other than REMOTE_ACTIVE, return at once: state,   *)
(* display, saved topology, state file and timers are unchanged and no     *)
(* signal is emitted.                                                      *)
C11_ManualRequestsGuarded ==
    [][ (\/ "SwitchNow" \in fx' /\ state # "IDLE"
         \/ "RestoreNow" \in fx' /\ state # "REMOTE_ACTIVE") =>
            /\ pc'["ev"] = "idle"
            /\ fx' \cap Signals = {}
            /\ UNCHANGED <<state, display, saved_config, state_file, timers,
                           remote_mode, enabled>>
      ]_vars

\* C11 witness: SwitchNow has been requested in REMOTE_ACTIVE and returned
C11_Witness ==
    /\ fx = {"SwitchNow"}
    /\ state = "REMOTE_ACTIVE"
    /\ pc["ev"] = "idle"
    /\ state_file.exists

AtRest == running /\ pc["poll"] = "wait" /\ pc["ev"] = "idle"

(* C13: between ticks and callbacks, from startup on, the controller state *)
(* is DISABLED exactly when the enabled flag is false (IDLE after a        *)
(* startup with enabled=true, DISABLED after one with enabled=false).      *)
C13_DisabledIffNotEnabled ==
    AtRest => (state = "DISABLED" <=> ~enabled)

(* C14: between ticks and callbacks, the value of the last                 *)
(* RemoteModeChanged emitted is True exactly when the state is             *)
(* REMOTE_ACTIVE.                                                          *)
C14_LastSignalIsRemoteActive ==
    AtRest => (remote_mode = "True" <=> state = "REMOTE_ACTIVE")

\* The step is a call of restore_config / of save_current_config (on the
\* DisplayConfig object alone), recorded in the log
RestoreCalled == steps' # steps /\ steps' # <<>> /\ Last(steps') \in {"restore", "restore failed"}
SaveCalled == steps' # steps /\ steps' # <<>> /\ Last(steps') \in {"save", "save failed"}

(* C15: after a successful restore_config nothing is saved in memory or on *)
(* disk, and a restore_config called next returns False, runs no           *)
(* kscreen-doctor command and changes nothing.                             *)
C15_RestoreIdempotent ==
    /\ []((steps # <<>> /\ Last(steps) = "restore") =>
            saved_config = None /\ ~state_file.exists)
    /\ [][ (steps # <<>> /\ Last(steps) = "restore" /\ RestoreCalled) =>
              /\ Last(steps') = "restore failed"
              /\ restore_result' = "failed"
              /\ fx' = {}
              /\ UNCHANGED <<saved_config, state_file, display>>
         ]_vars

\* C15 witness: a restore that failed right after one that succeeded
C15_Witness ==
    /\ steps = <<"restore", "restore failed">>
    /\ restore_result = "failed"
    /\ fx = {}
    /\ DefaultSecondary \in display

(* C16: a restore_config that follows the save of a topology listing the   *)
(* secondary output runs one command of three directives: enable,          *)
(* position with the saved x,y, mode with the saved width, height and      *)
(* integer refresh rate.                                                   *)
C16_RoundTripThreeDirectives ==
    [][ (/\ steps # <<>> /\ Last(steps) = "save"
         /\ Matches(saved_config, secondary_output) # {}
         /\ RestoreCalled) =>
            LET e == FirstMatch(saved_config, secondary_output)
            IN  \E c \in fx' :
                  /\ fx' = {c}
                  /\ Len(c) = 3
                  /\ c[1] = Directive("enable", secondary_output, <<>>)
                  /\ c[2] = Directive("position", secondary_output, <<e.pos.x, e.pos.y>>)
                  /\ c[3] = Directive("mode", secondary_output,
                                      <<e.currentMode.width, e.currentMode.height,
                                        IntOf(e.currentMode.refreshRate)>>)
      ]_vars

(* C16, as amended: a restore_config that follows the save of a topology   *)
(* listing the secondary output runs one command. Its first directive is   *)
(* enable; a position directive follows exactly when the saved entry has a *)
(* non-empty "pos", with the saved x and y (0 for one that is missing); a  *)
(* mode directive comes last exactly when the saved entry has a non-empty  *)
(* "currentMode", with the saved width, height and the integer part of the *)
(* refresh rate (1920, 1080, 60 for one that is missing). On exit code 0   *)
(* the state file and the in-memory saved topology are cleared; otherwise  *)
(* neither changes.                                                        *)
C16_RoundTripRecordedDirectives ==
    [][ (/\ steps # <<>> /\ Last(steps) = "save"
         /\ Matches(saved_config, secondary_output) # {}
         /\ RestoreCalled) =>
            LET e == FirstMatch(saved_config, secondary_output)
                hasPos == e.pos.has # {}
                hasMode == e.currentMode.has # {}
                x == IF "x" \in e.pos.has THEN e.pos.x ELSE 0
                y == IF "y" \in e.pos.has THEN e.pos.y ELSE 0
                w == IF "width" \in e.currentMode.has THEN e.currentMode.width ELSE 1920
                h == IF "height" \in e.currentMode.has THEN e.currentMode.height ELSE 1080
                hz == IF "refreshRate" \in e.currentMode.has
                      THEN e.currentMode.refreshRate \div 100 ELSE 60
            IN  /\ \E c \in fx' :
                      /\ fx' = {c}
                      /\ Len(c) = 1 + (IF hasPos THEN 1 ELSE 0) + (IF hasMode THEN 1 ELSE 0)
                      /\ c[1] = [op |-> "enable", out |-> secondary_output, args |-> <<>>]
                      /\ hasPos => c[2] = [op |-> "position", out |-> secondary_output,
                                           args |-> <<x, y>>]
                      /\ hasMode => c[Len(c)] = [op |-> "mode", out |-> secondary_output,
                                                 args |-> <<w, h, hz>>]
                /\ Last(steps') = "restore" =>
                      /\ ~state_file'.exists
                      /\ saved_config' = None
                      /\ restore_result' = "restored"
                /\ Last(steps') = "restore failed" =>
                      /\ UNCHANGED <<saved_config, state_file>>
                      /\ state_file.exists
                      /\ restore_result' = "failed"
      ]_vars

\* C16 witness: a save and a successful restore whose command had the
\* three directives
C16_Witness ==
    /\ steps = <<"save", "restore">>
    /\ \E c \in fx : Len(c) = 3 /\ c[3].op = "mode" /\ c[3].args[3] = 59
    /\ ~state_file.exists
    /\ saved_config = None

(* C17: save_current_config returns True, with the captured topology in    *)
(* memory and in the state file, exactly when get_current_config returned  *)
(* a non-empty topology; when it returns False the topology saved before   *)
(* stays in memory and the state file is untouched.                        *)
C17_FailedSaveKeepsSaved ==
    [][ SaveCalled =>
          /\ Last(steps') = "save" <=> Truthy(captured')
          /\ Last(steps') = "save" =>
                /\ saved_config' = captured'
                /\ state_file'.exists
                /\ state_file'.saved_config = captured'
          /\ Last(steps') = "save failed" =>
                /\ state_file' = state_file
                /\ Truthy(saved_config) => saved_config' = saved_config
                /\ ~Truthy(saved_config) => ~Truthy(saved_config')
      ]_vars

\* The entries a lookup contributes: none when it failed, else one for each
\* line after the first that has four fields or more
Contribution(run) ==
    IF run.rc # "ok" \/ run.lines = <<>> THEN <<>>
    ELSE LET rest == SelectSeq(SubSeq(run.lines, 2, Len(run.lines)),
                               LAMBDA l : Len(l) >= 4)
         IN  [i \in 1..Len(rest) |->
                [local |-> rest[i][4],
                 remote |-> IF Len(rest[i]) = 4 THEN "unknown" ELSE rest[i][5]]]

(* C18: check_connections returns as rdp the entries of the RDP port's     *)
(* lookup and as vnc those of the VNC ports' lookups in port order, a      *)
(* failed lookup contributing none and the others still counted,           *)
(* duplicates kept; total is the sum of the two lengths, and               *)
(* has_remote_connection is true exactly when total > 0.                   *)
C18_ConnectionsConcatenated ==
    fx = {"ss"} =>
        /\ returned.rdp = Contribution(runs[1])
        /\ returned.vnc = Contribution(runs[2]) \o Contribution(runs[3])
                            \o Contribution(runs[4])
        /\ returned.total = Len(returned.rdp) + Len(returned.vnc)
        /\ has_connection <=> returned.total > 0

\* C18 witness: the first VNC lookup timed out, the RDP lookup and the two
\* other VNC lookups found the same connection
C18_Witness ==
    /\ fx = {"ss"}
    /\ runs[2].rc = "timeout"
    /\ Len(returned.rdp) = 1
    /\ Len(returned.vnc) = 2
    /\ returned.vnc[1] = returned.vnc[2]
    /\ returned.vnc[1] = returned.rdp[1]
    /\ returned.total = 3
    /\ has_connection

\* The listing is one output block: a header and then no other header
OneBlock(lines) ==
    /\ lines # <<>>
    /\ lines[1].kind = "Output"
    /\ \A i \in 2..Len(lines) : lines[i].kind # "Output"
Markers(lines) == {i \in DOMAIN lines : lines[i].kind = "Modes" /\ lines[i].marked}
Geometries(lines) == {i \in DOMAIN lines : lines[i].kind = "Geometry" /\ lines[i].marked}
Highest(S) == CHOOSE i \in S : \A j \in S : j <= i
Lowest(S) == CHOOSE i \in S : \A j \in S : i <= j

(* C19: GetDisplays on a listing of one output block, its lines in any     *)
(* order: when the block has a mode marked active, the descriptor's        *)
(* resolution and integer refresh rate are that mode's (the last, if       *)
(* several lines have one), wherever a Geometry line stands; only without  *)
(* one is the resolution that of the (first) Geometry line.                *)
C19_MarkerBeforeGeometry ==
    (fx = {"kscreen-doctor -o"} /\ runs[1].rc = "ok" /\ OneBlock(runs[1].lines)) =>
        LET lines == runs[1].lines
        IN  /\ Len(returned) = 1
            /\ returned[1].name = lines[1].name
            /\ Markers(lines) # {} =>
                  /\ returned[1].resolution = lines[Highest(Markers(lines))].res
                  /\ returned[1].refreshRate = lines[Highest(Markers(lines))].refresh[1]
            /\ Markers(lines) = {} =>
                  /\ returned[1].refreshRate = ""
                  /\ returned[1].resolution =
                        IF Geometries(lines) = {} THEN ""
                        ELSE lines[Lowest(Geometries(lines))].res

\* C19 witness: a Geometry line before and after the marked mode
C19_Witness ==
    /\ fx = {"kscreen-doctor -o"}
    /\ runs[1].rc = "ok"
    /\ Len(runs[1].lines) = 4
    /\ runs[1].lines[1].kind = "Output"
    /\ runs[1].lines[2].kind = "Geometry" /\ runs[1].lines[2].marked
    /\ runs[1].lines[3].kind = "Modes" /\ runs[1].lines[3].marked
    /\ runs[1].lines[4].kind = "Geometry" /\ runs[1].lines[4].marked
    /\ Len(returned) = 1
    /\ returned[1].resolution = "2560x1440"
    /\ returned[1].refreshRate = "143"

(* C20: at most one debounce timer is armed and not yet fired.             *)
C20_AtMostOneTimer ==
    timers <= 1

(* C21: a debounce callback that fires when the state is not DETECTED      *)
(* returns at once: no state, topology, file or display change, no signal, *)
(* no connection lookup, and the timer is gone (not re-armed).             *)
C21_StaleFireIsNoOp ==
    [][ ("timer" \in fx' /\ state # "DETECTED") =>
            /\ pc'["ev"] = "idle"
            /\ fx' = {"timer"}
            /\ timers' = timers - 1
            /\ UNCHANGED <<state, enabled, saved_config, state_file, display,
                           remote_mode, steps>>
      ]_vars

\* C21 witness: a timer armed before a manual switch has fired in
\* REMOTE_ACTIVE
C21_Witness ==
    /\ fx = {"timer"}
    /\ state = "REMOTE_ACTIVE"
    /\ pc["ev"] = "idle"
    /\ timers = 0

(* C22: a debounce callback that finds the state DETECTED, and so goes on  *)
(* to confirm the connection, is the one armed when this DETECTED episode  *)
(* began: no timer of an earlier episode is pending with it (timers fire   *)
(* in the order they were armed).                                          *)
C22_NoStaleConfirmation ==
    [][ ("timer" \in fx' /\ state = "DETECTED") => timers = 1 ]_vars

(* C23: whenever the state file holds a topology, it is one captured with  *)
(* the secondary output still enabled.                                     *)
C23_SavedBeforeDisable ==
    (state_file.exists /\ Truthy(state_file.saved_config)) =>
        state_file.secondary_output \in state_file.saved_config.on

(* C24: a restore that succeeds enables the output recorded in the state   *)
(* file, the one the switch disabled.                                      *)
C24_RestoreTargetFromFile ==
    [][ ("restore" \in fx' /\ state_file.exists) =>
            display' = display \cup {state_file.secondary_output}
      ]_vars

(* C25: the monitor thread never overwrites DISABLED with DETECTED, and no *)
(* debounce callback starts a switch sequence while enabled is false.      *)
C25_NoAutomaticSwitchWhenDisabled ==
    [][ /\ ~(state = "DISABLED" /\ state' = "DETECTED")
        /\ (pc["ev"] = "dc_492" /\ pc'["ev"] = "sw_503") => enabled
      ]_vars

====
